---- MODULE Spec2Model ----
(***************************************************************************)
(* Model of the Borsdata API client (src/src/borsdata_client/client.py):   *)
(* the BorsdataClient constructor, the transport invoker _get with its     *)
(* tenacity retry loop, and the endpoint operations with their             *)
(* precondition checks, query shaping and envelope unwrapping.             *)
(***************************************************************************)
EXTENDS Integers, Sequences, FiniteSets, TLC

VARIABLES
    api_key,        \* self.api_key
    retry,          \* self.retry
    max_retries,    \* stop_after_attempt(max_retries) of self.retryer
    pc,             \* "idle" | "attempt" | "sleep" | "done": position of the one call
    op,             \* name of the operation being executed
    args,           \* the caller's arguments of that operation
    endpoint,       \* the endpoint argument of _get
    given,          \* the params argument of _get, None or a mapping
    url,            \* api_endpoint handed to _get_wrapper
    params,         \* the params mapping handed to _get_wrapper
    attempt_number, \* tenacity RetryCallState.attempt_number
    sent,           \* the GETs issued by this call, oldest first
    responses,      \* what the server answered to each GET
    result,         \* what the operation returned or raised
    fn,             \* the parser or handler applied last ("" when none was)
    input,          \* what it was applied to
    output,         \* what it returned or raised
    handle,         \* self._client, the httpx.Client: "open" | "closed"
    closes,         \* how many times self._client.close() was called
    scope,          \* the with block of the client: "outside" | "inside" | "left"
    thrown,         \* the exception raised inside the with block, "" when none
    reached,        \* the exception the with statement let out, "" when none
    uses,           \* requests made through the handle
    waits,          \* the sleeps of this call's retries in seconds, oldest first
    statistics,     \* self.retryer.statistics (its attempt count), kept between calls
    exhausted       \* an earlier call on this client ran out of attempts

clientvars == <<api_key, retry, max_retries, pc, op, args, endpoint, given, url,
                params, attempt_number, sent, responses, result>>
fnvars == <<fn, input, output>>
lifevars == <<handle, closes, scope, thrown, reached, uses>>
retryvars == <<waits, statistics, exhausted>>
vars == <<clientvars, fnvars, lifevars, retryvars>>

----------------------------------------------------------------------------
(* Bounds of the exploration *)

MaxRetriesBound == 3
MaxUses == 2
MaxAssignments == 1

(* Program constants *)

BASE_URL == "https://apiservice.borsdata.se/v1"
MaxInstruments == 50
MaxYearCount == 20
MaxQuarterR12Count == 40
DefaultMaxCount == 20
TooManyRequests == 429

----------------------------------------------------------------------------
(* Python values *)

None == <<>>
Some(v) == <<v>>
IsNone(x) == x = <<>>
Val(x) == x[1]

Range(n) == [i \in 1..n |-> i]

(* str.join over map(str, ...) *)
RECURSIVE Join(_)
Join(items) ==
    IF items = <<>> THEN ""
    ELSE IF Len(items) = 1 THEN ToString(items[1])
    ELSE ToString(items[1]) \o "," \o Join(Tail(items))

(* datetime.strftime("%Y-%m-%d"): zero padded fields *)
(* variant of %m and %d without the leading zero *)
Pad2_plain(n) == ToString(n)

(* %m and %d: two digits *)
Pad2(n) == IF n < 10 THEN "0" \o ToString(n) ELSE ToString(n)
Pad4(n) ==
    IF n < 10 THEN "000" \o ToString(n)
    ELSE IF n < 100 THEN "00" \o ToString(n)
    ELSE IF n < 1000 THEN "0" \o ToString(n)
    ELSE ToString(n)
Strftime(d) == Pad4(d.y) \o "-" \o Pad2(d.m) \o "-" \o Pad2(d.d)

(* dict operations: a dict is a function from its keys *)
EmptyDict == [k \in {} |-> ""]
DictSet(d, k, v) == [x \in (DOMAIN d) \cup {k} |-> IF x = k THEN v ELSE d[x]]
DictSetIf(c, d, k, v) == IF c THEN DictSet(d, k, v) ELSE d

----------------------------------------------------------------------------
(* The server and the HTTP transport (httpx.Client.get) *)

SuccessStatuses == {200, 201}
ErrorStatuses == {400, 401, TooManyRequests, 500}

(* response bodies: the text of the envelope of the endpoint asked for, *)
(* K standing for the collection key of that envelope                    *)
RawBodies == {"<html>", "{}", "{K: null}", "{K: []}", "{K: [row]}", "{K: [badrow]}"}

ServerResponses ==
    {[kind |-> "connfail", status |-> 0, raw |-> ""]}
    \cup {[kind |-> "http", status |-> s, raw |-> ""] : s \in ErrorStatuses}
    \cup {[kind |-> "http", status |-> s, raw |-> r] : s \in SuccessStatuses, r \in RawBodies}

(* httpx.Response.is_success *)
IsSuccess(status) == 200 <= status /\ status <= 299

(* the text of the HTTPStatusError of a status, as the tests' servers give it *)
ReasonPhrase(status) ==
    CASE status = 400 -> "Bad Request"
      [] status = 401 -> "Unauthorized"
      [] status = TooManyRequests -> "Rate limit exceeded"
      [] status = 500 -> "Internal Server Error"
      [] OTHER -> "Error response"

(* response.json(): the collection of the decoded envelope, or a failure *)
JsonDecode(raw) ==
    CASE raw = "{}" -> [ok |-> TRUE, coll |-> "absent"]
      [] raw = "{K: null}" -> [ok |-> TRUE, coll |-> "null"]
      [] raw = "{K: []}" -> [ok |-> TRUE, coll |-> "empty"]
      [] raw = "{K: [row]}" -> [ok |-> TRUE, coll |-> "rows"]
      [] raw = "{K: [badrow]}" -> [ok |-> TRUE, coll |-> "badrows"]
      [] OTHER -> [ok |-> FALSE, coll |-> ""]

Returned(body) == [failed |-> FALSE, type |-> "", status |-> 0, msg |-> "", body |-> body]
Raised(type, status, msg) ==
    [failed |-> TRUE, type |-> type, status |-> status, msg |-> msg, body |-> ""]

(* one attempt: GET, raise_for_status, json *)
get_wrapper(r) ==
    IF r.kind = "connfail" THEN Raised("ConnectError", 0, "Connection error")
    ELSE IF ~IsSuccess(r.status)
    THEN Raised("HTTPStatusError", r.status, ReasonPhrase(r.status))
    ELSE IF ~JsonDecode(r.raw).ok THEN Raised("JSONDecodeError", 0, "Expecting value")
    ELSE Returned(JsonDecode(r.raw).coll)

----------------------------------------------------------------------------
(* The retry controller self.retryer *)

(* variants of the predicate that retry more than a 429 *)
is_retryable_exception_any_status(o) == o.type = "HTTPStatusError"
is_retryable_exception_connection(o) ==
    \/ o.type = "HTTPStatusError" /\ o.status = TooManyRequests
    \/ o.type = "ConnectError"
is_retryable_exception_decode(o) ==
    \/ o.type = "HTTPStatusError" /\ o.status = TooManyRequests
    \/ o.type = "JSONDecodeError"

is_retryable_exception(o) ==
    o.type = "HTTPStatusError" /\ o.status = TooManyRequests

(* tenacity retry_if_exception: only a failed outcome is asked *)
retry_if_exception(o) == o.failed /\ is_retryable_exception(o)

(* variants of the stop condition that are off by one *)
stop_after_attempt_late(n) == n > max_retries
stop_after_attempt_early(n) == n + 1 >= max_retries

(* tenacity stop_after_attempt(max_retries) *)
stop_after_attempt(n) == n >= max_retries

(* wait_random_exponential(multiplier=1, min=1, max=20) *)
Multiplier == 1
WaitMin == 1
WaitMax == 20

(* variant whose exponent is the attempt number itself *)
wait_exponential_late(n) ==
    LET exp == Multiplier * 2^n
        capped == IF exp < WaitMax THEN exp ELSE WaitMax
    IN  IF capped > WaitMin THEN capped ELSE WaitMin

(* the upper limit of the wait after attempt n: multiplier * 2^(n-1), kept *)
(* between min and max                                                      *)
wait_exponential(n) ==
    LET exp == Multiplier * 2^(n - 1)
        capped == IF exp < WaitMax THEN exp ELSE WaitMax
    IN  IF capped > WaitMin THEN capped ELSE WaitMin

(* the wait after attempt n is random.uniform(min, limit): of the waits   *)
(* from min to the limit, the shortest and the longest                     *)
wait_random_exponential(n) == {WaitMin, wait_exponential(n)}

(* the statistics of a retryer that has made no call *)
NoStatistics == [attempt_number |-> 0]

(* variant of begin that goes on from the statistics of the last call *)
begin_carried(stats) ==
    IF stats = NoStatistics THEN [attempt_number |-> 1] ELSE stats

(* Retrying.__call__ begins every call by clearing the statistics and    *)
(* counting from attempt 1                                                *)
begin(stats) == [attempt_number |-> 1]

(* variant without a stop condition *)
RetryAgain_forever(o) == retry /\ retry_if_exception(o)

(* variant that runs the retryer whatever self.retry says *)
RetryAgain_unconditional(o) ==
    retry_if_exception(o) /\ ~stop_after_attempt(attempt_number)

(* the branch of _get on self.retry: the retryer runs the wrapper again *)
(* while the outcome is retryable and the stop condition is not met      *)
RetryAgain(o) ==
    retry /\ retry_if_exception(o) /\ ~stop_after_attempt(attempt_number)

----------------------------------------------------------------------------
(* Results of an operation *)

NoResult ==
    [kind |-> "none", cls |-> "", status |-> 0, msg |-> "", cause |-> "",
     value |-> "", body |-> ""]
Return(value, body) ==
    [kind |-> "return", cls |-> "", status |-> 0, msg |-> "", cause |-> "",
     value |-> value, body |-> body]
Raise(cls, status, msg, cause) ==
    [kind |-> "raise", cls |-> cls, status |-> status, msg |-> msg, cause |-> cause,
     value |-> "", body |-> ""]

(* the except clauses of _get *)
GetOutcome(o) ==
    IF ~o.failed THEN Return("dict", o.body)
    ELSE IF o.type = "HTTPStatusError"
    THEN Raise("BorsdataClientError", o.status,
               "API request failed with status code " \o ToString(o.status)
                   \o ": " \o o.msg,
               o.type)
    ELSE Raise("BorsdataClientError", 0, "API request failed: " \o o.msg, o.type)

----------------------------------------------------------------------------
(* Envelope unwrapping of the endpoint operations (pydantic 2 models).     *)
(* The scalar fields an envelope requires next to its collection are taken *)
(* to be present; coll is the state of the collection itself.              *)

ValidationFailure == Raise("ValidationError", 0, "validation error", "")
NotIterable == Raise("TypeError", 0, "'NoneType' object is not iterable", "")

(* XResponse(response).x or [] with x: Optional[List[X]] and no default *)
OrEmptyRequired(coll) ==
    CASE coll = "absent" -> ValidationFailure
      [] coll = "badrows" -> ValidationFailure
      [] coll = "rows" -> Return("list", "")
      [] OTHER -> Return("[]", "")

(* XResponse(response).x or [] with x: Optional[List[X]] = None *)
OrEmptyDefault(coll) ==
    CASE coll = "badrows" -> ValidationFailure
      [] coll = "rows" -> Return("list", "")
      [] OTHER -> Return("[]", "")

(* return response_model.x with x: Optional[List[X]] = None *)
PlainDefault(coll) ==
    CASE coll = "badrows" -> ValidationFailure
      [] coll = "rows" -> Return("list", "")
      [] coll = "empty" -> Return("[]", "")
      [] OTHER -> Return("None", "")

(* [X(x) for x in response.get(key, [])] *)
DictGet(coll) ==
    CASE coll = "badrows" -> ValidationFailure
      [] coll = "rows" -> Return("list", "")
      [] coll = "null" -> NotIterable
      [] OTHER -> Return("[]", "")

(* x: List[...] required and not nullable, rows validated afterwards *)
RequiredList(coll) ==
    CASE coll = "rows" -> Return("list", "")
      [] coll = "empty" -> Return("[]", "")
      [] OTHER -> ValidationFailure

(* the envelope object itself is returned, its collection defaulting to None *)
EnvelopeDefault(coll) ==
    IF coll = "badrows" THEN ValidationFailure ELSE Return("object", "")

(* TranslationMetadataResponse: a required list of unvalidated dicts *)
EnvelopeDicts(coll) ==
    IF coll \in {"absent", "null"} THEN ValidationFailure ELSE Return("object", "")

(* KpiCalcUpdatedResponse.kpis_calc_updated: Optional[datetime] = None *)
ScalarDefault(coll) ==
    CASE coll \in {"absent", "null"} -> Return("None", "")
      [] coll = "rows" -> Return("datetime", "")
      [] OTHER -> ValidationFailure

OrEmptyRequiredOps ==
    {"get_branches", "get_countries", "get_markets", "get_sectors",
     "get_instruments", "get_global_instruments", "get_kpi_summary",
     "get_insider_holdings", "get_short_positions", "get_buybacks",
     "get_instrument_descriptions", "get_report_calendar"}
OrEmptyDefaultOps == {"get_dividend_calendar"}
PlainDefaultOps == {"get_stock_prices_batch", "get_reports_batch", "get_reports_metadata"}
DictGetOps == {"get_reports", "get_kpi_metadata"}
RequiredListOps ==
    {"get_stock_prices", "get_last_stock_prices", "get_last_global_stock_prices",
     "get_stock_prices_by_date", "get_global_stock_prices_by_date", "get_stock_splits"}
EnvelopeDefaultOps == {"get_kpi_history", "get_kpi_history_batch"}

ListOps ==
    OrEmptyRequiredOps \cup OrEmptyDefaultOps \cup PlainDefaultOps
        \cup DictGetOps \cup RequiredListOps

(* what the operation name does with the body _get returned *)
Unwrap(name, coll) ==
    CASE name \in OrEmptyRequiredOps -> OrEmptyRequired(coll)
      [] name \in OrEmptyDefaultOps -> OrEmptyDefault(coll)
      [] name \in PlainDefaultOps -> PlainDefault(coll)
      [] name \in DictGetOps -> DictGet(coll)
      [] name \in RequiredListOps -> RequiredList(coll)
      [] name \in EnvelopeDefaultOps -> EnvelopeDefault(coll)
      [] name = "get_translation_metadata" -> EnvelopeDicts(coll)
      [] name = "get_kpi_updated" -> ScalarDefault(coll)
      [] OTHER -> Return("dict", coll)

(* variant that answers a failed _get with an empty list *)
Finish_swallow(name, g) ==
    IF g.kind = "raise" THEN Return("[]", "") ELSE Unwrap(name, g.body)

(* the operation after _get: an error of _get propagates, a body is unwrapped *)
Finish(name, g) ==
    IF g.kind = "raise" THEN g ELSE Unwrap(name, g.body)

----------------------------------------------------------------------------
(* Arguments of the operations *)

ApiKeys == {"test_api_key"}

ListOf(items) == [kind |-> "list", items |-> items]
GeneratorOf(items) == [kind |-> "generator", items |-> items]

IdSequences ==
    {<<>>, <<7>>, <<12, 3>>, Range(MaxInstruments), Range(MaxInstruments + 1)}
IdInputs ==
    {ListOf(q) : q \in IdSequences}
        \cup {GeneratorOf(q) : q \in {<<12, 3>>, Range(MaxInstruments + 1)}}

Dates == {[y |-> 2020, m |-> 1, d |-> 1], [y |-> 2023, m |-> 12, d |-> 31]}
OptDates == {None} \cup {Some(d) : d \in Dates}
DateRanges ==
    {<<None, None>>, <<Some([y |-> 2020, m |-> 1, d |-> 1]), None>>,
     <<None, Some([y |-> 2023, m |-> 12, d |-> 31])>>,
     <<Some([y |-> 2020, m |-> 1, d |-> 1]), Some([y |-> 2023, m |-> 12, d |-> 31])>>}
OptCounts == {None, Some(0), Some(10)}
YearCounts == {None, Some(0), Some(1), Some(MaxYearCount), Some(MaxYearCount + 1)}
QuarterCounts ==
    {None, Some(0), Some(1), Some(MaxQuarterR12Count), Some(MaxQuarterR12Count + 1)}
InstrumentIds == {97}
KpiIds == {2}
ReportTypes == {"year", "r12"}

(* what a caller of _get itself passes as params *)
CallerParams ==
    {None, Some(EmptyDict), Some([k \in {"param1"} |-> "value1"]),
     Some([k \in {"authKey"} |-> "callers_key"]),
     Some([k \in {"authKey", "param1"} |->
              IF k = "authKey" THEN "callers_key" ELSE "value1"])}

NoArgs ==
    [ids |-> ListOf(<<>>), from_date |-> None, to_date |-> None, date |-> None,
     max_count |-> None, max_year_count |-> None, max_quarter_r12_count |-> None,
     original_currency |-> FALSE, instrument_id |-> 0, kpi_id |-> 0,
     report_type |-> "", price_type |-> ""]

(* len(list(instrument_ids)) walks the iterable: a generator is left exhausted *)
Walked(ids) == IF ids.kind = "generator" THEN GeneratorOf(<<>>) ELSE ids

----------------------------------------------------------------------------
(* BorsdataClient.__init__ *)

(* variant that leaves the handle to the first request *)
httpx_Client_lazy == "none"

(* self._client = httpx.Client(timeout=30.0) *)
httpx_Client == "open"

Init ==
    /\ api_key \in ApiKeys
    /\ retry \in BOOLEAN
    /\ max_retries \in 0..MaxRetriesBound
    /\ pc = "idle"
    /\ op = ""
    /\ args = NoArgs
    /\ endpoint = ""
    /\ given = None
    /\ url = ""
    /\ params = EmptyDict
    /\ attempt_number = 0
    /\ sent = <<>>
    /\ responses = <<>>
    /\ result = NoResult
    /\ fn = ""
    /\ input = <<>>
    /\ output = <<>>
    /\ handle = httpx_Client
    /\ closes = 0
    /\ scope = "outside"
    /\ thrown = ""
    /\ reached = ""
    /\ uses = 0
    /\ waits = <<>>
    /\ statistics = NoStatistics
    /\ exhausted = FALSE

(* variant that keeps a key the caller supplied *)
InjectAuth_setdefault(p) ==
    IF "authKey" \in DOMAIN p THEN p ELSE DictSet(p, "authKey", api_key)

(* params["authKey"] = self.api_key *)
InjectAuth(p) == DictSet(p, "authKey", api_key)

(* _get up to the first attempt: params defaulting, the key, the full url; *)
(* the retryer begins a call at attempt 1                                   *)
get(name, a, e, p) ==
    /\ pc = "idle"
    /\ pc' = "attempt"
    /\ op' = name
    /\ args' = a
    /\ endpoint' = e
    /\ given' = p
    /\ url' = BASE_URL \o e
    /\ params' = InjectAuth(IF IsNone(p) THEN EmptyDict ELSE Val(p))
    /\ attempt_number' = 1
    /\ sent' = <<>>
    /\ responses' = <<>>
    /\ result' = NoResult
    /\ waits' = <<>>
    /\ statistics' = IF retry THEN begin(statistics) ELSE statistics
    /\ UNCHANGED <<api_key, retry, max_retries, fnvars, lifevars, exhausted>>

(* an operation that raises before it reaches _get *)
Fail(name, a, cls, msg) ==
    /\ pc = "idle"
    /\ pc' = "done"
    /\ op' = name
    /\ args' = a
    /\ endpoint' = ""
    /\ given' = None
    /\ url' = ""
    /\ params' = EmptyDict
    /\ attempt_number' = 0
    /\ sent' = <<>>
    /\ responses' = <<>>
    /\ result' = Raise(cls, 0, msg, "")
    /\ waits' = <<>>
    /\ UNCHANGED <<api_key, retry, max_retries, fnvars, lifevars, statistics,
                   exhausted>>

(* one run of _get_wrapper under the retryer, or alone when retry is off; *)
(* a final outcome goes through the except clauses of _get and then       *)
(* through the rest of the operation                                      *)
Attempt ==
    /\ pc = "attempt"
    /\ \E r \in ServerResponses :
        /\ sent' = Append(sent, [url |-> url, params |-> params])
        /\ responses' = Append(responses, r)
        /\ IF RetryAgain(get_wrapper(r))
           THEN /\ pc' = "sleep"
                /\ result' = result
           ELSE /\ pc' = "done"
                /\ result' = Finish(op, GetOutcome(get_wrapper(r)))
    /\ UNCHANGED <<api_key, retry, max_retries, op, args, endpoint, given, url, params,
                   attempt_number, fnvars, lifevars, retryvars>>

(* the retryer's wait between two attempts; the next attempt is counted *)
Sleep ==
    /\ pc = "sleep"
    /\ pc' = "attempt"
    /\ attempt_number' = attempt_number + 1
    /\ \E w \in wait_random_exponential(attempt_number) : waits' = Append(waits, w)
    /\ statistics' = [attempt_number |-> statistics.attempt_number + 1]
    /\ UNCHANGED <<api_key, retry, max_retries, op, args, endpoint, given, url,
                   params, sent, responses, result, fnvars, lifevars, exhausted>>

(* the call that is over made its last permitted attempt and that one was *)
(* still to be retried: the retryer stopped it                           *)
OutOfAttempts ==
    /\ retry
    /\ responses # <<>>
    /\ retry_if_exception(get_wrapper(responses[Len(responses)]))
    /\ stop_after_attempt(attempt_number)

(* the caller has the result; the client is free for its next call *)
Done ==
    /\ pc = "done"
    /\ pc' = "idle"
    /\ op' = ""
    /\ args' = NoArgs
    /\ endpoint' = ""
    /\ given' = None
    /\ url' = ""
    /\ params' = EmptyDict
    /\ attempt_number' = 0
    /\ sent' = <<>>
    /\ responses' = <<>>
    /\ result' = NoResult
    /\ waits' = <<>>
    /\ exhausted' = (exhausted \/ OutOfAttempts)
    /\ UNCHANGED <<api_key, retry, max_retries, fnvars, lifevars, statistics>>

----------------------------------------------------------------------------
(* The endpoint operations, up to their call of _get *)

Dict1(k, v) == [x \in {k} |-> v]

(* a caller using _get directly, as the tests do *)
CallGet ==
    \E e \in {"/test/endpoint"}, p \in CallerParams :
        get("_get", NoArgs, e, p)

get_branches == get("get_branches", NoArgs, "/branches", None)
get_countries == get("get_countries", NoArgs, "/countries", None)
get_markets == get("get_markets", NoArgs, "/markets", None)
get_sectors == get("get_sectors", NoArgs, "/sectors", None)
get_instruments == get("get_instruments", NoArgs, "/instruments", None)
get_global_instruments ==
    get("get_global_instruments", NoArgs, "/instruments/global", None)

get_stock_prices ==
    \E i \in InstrumentIds, ft \in DateRanges :
        LET f == ft[1]
            t == ft[2]
            a == [NoArgs EXCEPT !.instrument_id = i, !.from_date = f, !.to_date = t,
                                !.max_count = Some(DefaultMaxCount)]
            p0 == Dict1("maxCount", ToString(Val(a.max_count)))
            p1 == DictSetIf(~IsNone(f), p0, "from", Strftime(Val(f)))
            p2 == DictSetIf(~IsNone(t), p1, "to", Strftime(Val(t)))
        IN  get("get_stock_prices", a,
                "/instruments/" \o ToString(i) \o "/stockprices", Some(p2))

(* the two leading assertions of the checked batch operations *)
TooManyIds(ids) == Len(ids.items) > MaxInstruments
TooManyIdsMsg == "Max 50 instrument IDs allowed per request"

get_stock_prices_batch ==
    \E ids \in IdInputs, ft \in DateRanges :
        LET f == ft[1]
            t == ft[2]
            a == [NoArgs EXCEPT !.ids = ids, !.from_date = f, !.to_date = t]
            p0 == Dict1("instList", Join(Walked(ids).items))
            p1 == DictSetIf(~IsNone(f), p0, "from", Strftime(Val(f)))
            p2 == DictSetIf(~IsNone(t), p1, "to", Strftime(Val(t)))
        IN  IF TooManyIds(ids)
            THEN Fail("get_stock_prices_batch", a, "AssertionError", TooManyIdsMsg)
            ELSE get("get_stock_prices_batch", a, "/instruments/stockprices", Some(p2))

get_reports ==
    \E i \in InstrumentIds, rt \in ReportTypes, orig \in BOOLEAN :
        LET a == [NoArgs EXCEPT !.instrument_id = i, !.report_type = rt,
                                !.max_count = Some(10), !.original_currency = orig]
            p == DictSet(Dict1("maxCount", ToString(Val(a.max_count))),
                         "original", IF orig THEN "1" ELSE "0")
        IN  get("get_reports", a,
                "/instruments/" \o ToString(i) \o "/reports/" \o rt, Some(p))

(* the assertions of get_reports_batch in their order; cls "" when all pass. *)
(* None <= 20 is a TypeError of the comparison, not an assertion failure     *)
NoneCompareMsg == "'<=' not supported between instances of 'NoneType' and 'int'"
Passed == [cls |-> "", msg |-> ""]
Broken(cls, msg) == [cls |-> cls, msg |-> msg]

(* variant that lets a count of zero through *)
YearCountInRange_zero(n) == 0 <= n /\ n <= MaxYearCount

YearCountInRange(n) == 0 < n /\ n <= MaxYearCount
QuarterCountInRange(n) == 0 < n /\ n <= MaxQuarterR12Count

ReportsBatchCheck(ids, my, mq) ==
    IF TooManyIds(ids) THEN Broken("AssertionError", TooManyIdsMsg)
    ELSE IF IsNone(my) THEN Broken("TypeError", NoneCompareMsg)
    ELSE IF ~(Val(my) <= MaxYearCount)
    THEN Broken("AssertionError", "max_year_count must be 20 or less")
    ELSE IF IsNone(mq) THEN Broken("TypeError", NoneCompareMsg)
    ELSE IF ~(Val(mq) <= MaxQuarterR12Count)
    THEN Broken("AssertionError", "max_quarter_r12_count must be 40 or less")
    ELSE IF ~YearCountInRange(Val(my))
    THEN Broken("AssertionError", "max_year_count must be a positive integer")
    ELSE IF ~QuarterCountInRange(Val(mq))
    THEN Broken("AssertionError", "max_quarter_r12_count must be a positive integer")
    ELSE Passed

get_reports_batch ==
    \E ids \in IdInputs, my \in YearCounts, mq \in QuarterCounts, orig \in BOOLEAN :
        LET a == [NoArgs EXCEPT !.ids = ids, !.max_year_count = my,
                                !.max_quarter_r12_count = mq,
                                !.original_currency = orig]
            chk == ReportsBatchCheck(ids, my, mq)
            p0 == Dict1("instList", Join(Walked(ids).items))
            p1 == DictSetIf(~IsNone(my), p0, "maxYearCount", ToString(Val(my)))
            p2 == DictSetIf(~IsNone(mq), p1, "maxQuarterR12Count", ToString(Val(mq)))
            p3 == DictSet(p2, "original", IF orig THEN "1" ELSE "0")
        IN  IF chk.cls # ""
            THEN Fail("get_reports_batch", a, chk.cls, chk.msg)
            ELSE get("get_reports_batch", a, "/instruments/reports", Some(p3))

get_reports_metadata ==
    get("get_reports_metadata", NoArgs, "/instruments/reports/metadata", None)
get_kpi_metadata == get("get_kpi_metadata", NoArgs, "/instruments/kpis/metadata", None)
get_kpi_updated == get("get_kpi_updated", NoArgs, "/instruments/kpis/updated", None)

(* if max_count: a count of 0 is as good as none *)
Truthy(c) == ~IsNone(c) /\ Val(c) # 0

get_kpi_history ==
    \E i \in InstrumentIds, k \in KpiIds, rt \in ReportTypes, c \in OptCounts :
        LET a == [NoArgs EXCEPT !.instrument_id = i, !.kpi_id = k, !.report_type = rt,
                                !.price_type = "mean", !.max_count = c]
            p == DictSetIf(Truthy(c), EmptyDict, "maxCount", ToString(Val(c)))
        IN  get("get_kpi_history", a,
                "/instruments/" \o ToString(i) \o "/kpis/" \o ToString(k) \o "/"
                    \o rt \o "/" \o a.price_type \o "/history",
                Some(p))

get_kpi_history_batch ==
    \E ids \in IdInputs, k \in KpiIds, rt \in ReportTypes, c \in OptCounts :
        LET a == [NoArgs EXCEPT !.ids = ids, !.kpi_id = k, !.report_type = rt,
                                !.price_type = "mean", !.max_count = c]
            p0 == Dict1("instList", Join(Walked(ids).items))
            p1 == DictSetIf(Truthy(c), p0, "maxCount", ToString(Val(c)))
        IN  IF TooManyIds(ids)
            THEN Fail("get_kpi_history_batch", a, "AssertionError", TooManyIdsMsg)
            ELSE get("get_kpi_history_batch", a,
                     "/instruments/kpis/" \o ToString(k) \o "/" \o rt \o "/"
                         \o a.price_type \o "/history",
                     Some(p1))

get_kpi_summary ==
    \E i \in InstrumentIds, rt \in ReportTypes, c \in OptCounts :
        LET a == [NoArgs EXCEPT !.instrument_id = i, !.report_type = rt,
                                !.max_count = c]
            p == DictSetIf(Truthy(c), EmptyDict, "maxCount", ToString(Val(c)))
        IN  get("get_kpi_summary", a,
                "/instruments/" \o ToString(i) \o "/kpis/" \o rt \o "/summary",
                Some(p))

(* the operations that join the ids without looking at how many there are *)
InstListOnly(name, e) ==
    \E ids \in IdInputs :
        get(name, [NoArgs EXCEPT !.ids = ids], e,
            Some(Dict1("instList", Join(ids.items))))

get_insider_holdings == InstListOnly("get_insider_holdings", "/holdings/insider")
get_short_positions == get("get_short_positions", NoArgs, "/holdings/shorts", None)
get_buybacks == InstListOnly("get_buybacks", "/holdings/buyback")
get_instrument_descriptions ==
    InstListOnly("get_instrument_descriptions", "/instruments/description")
get_report_calendar == InstListOnly("get_report_calendar", "/instruments/report/calendar")
get_dividend_calendar ==
    InstListOnly("get_dividend_calendar", "/instruments/dividend/calendar")

get_last_stock_prices ==
    get("get_last_stock_prices", NoArgs, "/instruments/stockprices/last", None)
get_last_global_stock_prices ==
    get("get_last_global_stock_prices", NoArgs,
        "/instruments/stockprices/global/last", None)

ByDate(name, e) ==
    \E d \in Dates :
        get(name, [NoArgs EXCEPT !.date = Some(d)], e,
            Some(Dict1("date", Strftime(d))))

get_stock_prices_by_date ==
    ByDate("get_stock_prices_by_date", "/instruments/stockprices/date")
get_global_stock_prices_by_date ==
    ByDate("get_global_stock_prices_by_date", "/instruments/stockprices/global/date")

get_stock_splits ==
    \E f \in OptDates :
        get("get_stock_splits", [NoArgs EXCEPT !.from_date = f],
            "/instruments/stocksplits",
            Some(DictSetIf(~IsNone(f), EmptyDict, "from", Strftime(Val(f)))))

get_translation_metadata ==
    get("get_translation_metadata", NoArgs, "/translationmetadata", None)

----------------------------------------------------------------------------

Next ==
    \/ CallGet
    \/ get_branches
    \/ get_countries
    \/ get_markets
    \/ get_sectors
    \/ get_instruments
    \/ get_global_instruments
    \/ get_stock_prices
    \/ get_stock_prices_batch
    \/ get_reports
    \/ get_reports_batch
    \/ get_reports_metadata
    \/ get_kpi_metadata
    \/ get_kpi_updated
    \/ get_kpi_history
    \/ get_kpi_history_batch
    \/ get_kpi_summary
    \/ get_insider_holdings
    \/ get_short_positions
    \/ get_buybacks
    \/ get_instrument_descriptions
    \/ get_report_calendar
    \/ get_dividend_calendar
    \/ get_last_stock_prices
    \/ get_last_global_stock_prices
    \/ get_stock_prices_by_date
    \/ get_global_stock_prices_by_date
    \/ get_stock_splits
    \/ get_translation_metadata
    \/ Attempt
    \/ Sleep
    \/ Done

Spec == Init /\ [][Next]_vars

----------------------------------------------------------------------------
(* The client as a resource: the handle made by __init__, the with block  *)
(* of __enter__ and __exit__, and the requests that go through the handle *)

ScopeExceptions == {"BorsdataClientError", "ValueError"}

(* variant of __exit__ that returns a true value *)
ExitReturn_truthy == TRUE

(* __exit__ has no return statement: None, which is false *)
ExitReturn == FALSE

Max2(u) == IF u < MaxUses THEN u + 1 ELSE u

(* with client: __enter__ returns self *)
Enter ==
    /\ scope = "outside"
    /\ scope' = "inside"
    /\ UNCHANGED <<clientvars, fnvars, retryvars, handle, closes, thrown, reached, uses>>

(* self._client.get(...) of an operation that then returns *)
Use ==
    /\ handle = "open"
    /\ scope = "inside" => thrown = ""
    /\ uses < MaxUses
    /\ uses' = uses + 1
    /\ UNCHANGED <<clientvars, fnvars, retryvars, handle, closes, scope, thrown, reached>>

(* the body of the with block raises: an operation that failed, with or *)
(* without a request, or code of the caller                               *)
RaiseInside ==
    /\ scope = "inside"
    /\ thrown = ""
    /\ \E e \in ScopeExceptions, u \in {uses, Max2(uses)} :
        /\ thrown' = e
        /\ uses' = u
    /\ UNCHANGED <<clientvars, fnvars, retryvars, handle, closes, scope, reached>>

(* __exit__: the block is left, normally or by the exception thrown *)
Exit ==
    /\ scope = "inside"
    /\ scope' = "left"
    /\ handle' = "closed"
    /\ closes' = closes + 1
    /\ reached' = IF ExitReturn THEN "" ELSE thrown
    /\ UNCHANGED <<clientvars, fnvars, retryvars, thrown, uses>>

LifeNext ==
    \/ Enter
    \/ Use
    \/ RaiseInside
    \/ Exit

LifeSpec == Init /\ [][LifeNext]_vars

----------------------------------------------------------------------------
(* a parsing step or a handler is over: its caller has the output and the *)
(* next one starts afresh                                                  *)
FnReturn ==
    /\ fn # ""
    /\ fn' = ""
    /\ input' = <<>>
    /\ output' = <<>>
    /\ UNCHANGED <<clientvars, lifevars, retryvars>>

(* The per-instrument records of the batch envelopes (models.py).  A record *)
(* of the body is given by the state of its values key and of its error key *)

ValuesStates == {"absent", "null", "rows", "badrows"}
ErrorStates == {"absent", "null", "No data for instrument"}
RecordInputs == [values : ValuesStates, error : ErrorStates]

PerInstrumentOps ==
    {"get_insider_holdings", "get_short_positions", "get_buybacks",
     "get_report_calendar", "get_dividend_calendar", "get_stock_prices_batch",
     "get_reports_batch", "get_kpi_history_batch"}

(* values: Optional[List[Row]] declared without a default: the key is required *)
ValuesRequired(name) ==
    name \in {"get_insider_holdings", "get_short_positions", "get_buybacks",
              "get_report_calendar"}

(* error: Optional[str] declared without a default *)
ErrorRequired(name) == name = "get_buybacks"

(* pydantic validation of one record *)
RecordValid(name, r) ==
    /\ r.values # "badrows"
    /\ r.values = "absent" => ~ValuesRequired(name)
    /\ r.error = "absent" => ~ErrorRequired(name)

(* the record object: absent and null both read as None *)
RecordObject(i, r) ==
    [instrument |-> i,
     values |-> IF r.values = "rows" THEN "rows" ELSE "None",
     error |-> IF r.error \in {"absent", "null"} THEN None ELSE Some(r.error)]

(* the envelope parses only when every record does *)
ParseRecords(name, recs) ==
    IF \A i \in 1..Len(recs) : RecordValid(name, recs[i])
    THEN [kind |-> "return",
          records |-> [i \in 1..Len(recs) |-> RecordObject(i, recs[i])]]
    ELSE [kind |-> "raise", records |-> <<>>]

(* an operation parses the list of records of a 200 answer *)
ParseBatch ==
    \E name \in PerInstrumentOps, r1 \in RecordInputs, r2 \in RecordInputs :
        /\ fn = ""
        /\ fn' = name
        /\ input' = <<r1, r2>>
        /\ output' = ParseRecords(name, <<r1, r2>>)
        /\ UNCHANGED <<clientvars, lifevars, retryvars>>

(* Translation metadata (models.py, TranslationMetadataResponse).  A key   *)
(* is the sequence of its characters, so that startswith, split and int    *)
(* are computed as Python computes them                                    *)

Digits == {"0", "1", "2", "3", "4", "5", "6", "7", "8", "9"}
DigitValue(c) ==
    CASE c = "0" -> 0 [] c = "1" -> 1 [] c = "2" -> 2 [] c = "3" -> 3
      [] c = "4" -> 4 [] c = "5" -> 5 [] c = "6" -> 6 [] c = "7" -> 7
      [] c = "8" -> 8 [] c = "9" -> 9

L_BRANCH == <<"L", "_", "B", "R", "A", "N", "C", "H", "_">>
L_SECTOR == <<"L", "_", "S", "E", "C", "T", "O", "R", "_">>
L_COUNTRY == <<"L", "_", "C", "O", "U", "N", "T", "R", "Y", "_">>
CategoryPrefix(category) ==
    CASE category = "branches" -> L_BRANCH
      [] category = "sectors" -> L_SECTOR
      [] category = "countries" -> L_COUNTRY
Categories == {"branches", "sectors", "countries"}

(* str.startswith *)
startswith(str, prefix) ==
    /\ Len(str) >= Len(prefix)
    /\ SubSeq(str, 1, Len(prefix)) = prefix

(* str.split("_")[-1]: what follows the last underscore *)
LastUnderscore(str) ==
    IF \E i \in 1..Len(str) : str[i] = "_"
    THEN CHOOSE i \in 1..Len(str) :
             str[i] = "_" /\ \A j \in (i + 1)..Len(str) : str[j] # "_"
    ELSE 0
split_last(str) == SubSeq(str, LastUnderscore(str) + 1, Len(str))

(* str.strip of blanks, as int() applies it *)
RECURSIVE lstrip(_)
lstrip(str) ==
    IF str # <<>> /\ Head(str) = " " THEN lstrip(Tail(str)) ELSE str
RECURSIVE rstrip(_)
rstrip(str) ==
    IF str # <<>> /\ str[Len(str)] = " "
    THEN rstrip(SubSeq(str, 1, Len(str) - 1)) ELSE str
strip(str) == rstrip(lstrip(str))

RECURSIVE DecimalValue(_)
DecimalValue(ds) ==
    IF ds = <<>> THEN 0
    ELSE 10 * DecimalValue(SubSeq(ds, 1, Len(ds) - 1)) + DigitValue(ds[Len(ds)])
AllDigits(ds) == ds # <<>> /\ \A i \in 1..Len(ds) : ds[i] \in Digits

(* int(str): blanks stripped, an optional sign, then digits; anything else *)
(* is a ValueError                                                         *)
Signed(str) == str # <<>> /\ Head(str) \in {"+", "-"}
int_ok(str) ==
    LET t == strip(str) IN AllDigits(IF Signed(t) THEN Tail(t) ELSE t)
int(str) ==
    LET t == strip(str) IN
    IF Signed(t)
    THEN (IF Head(t) = "-" THEN 0 - DecimalValue(Tail(t)) ELSE DecimalValue(Tail(t)))
    ELSE DecimalValue(t)

(* the translationKey entry of a record: absent, null, or a string *)
KeyAbsent == [has |-> FALSE, v |-> None]
KeyNull == [has |-> TRUE, v |-> None]
KeyStr(str) == [has |-> TRUE, v |-> Some(str)]
TranslationKeys ==
    {KeyAbsent, KeyNull,
     KeyStr(<<"L", "_", "B", "R", "A", "N", "C", "H", "_", "1">>), KeyStr(<<"L", "_", "S", "E", "C", "T", "O", "R", "_", "1", "0">>), KeyStr(<<"L", "_", "C", "O", "U", "N", "T", "R", "Y", "_", "2">>),
     KeyStr(<<"L", "_", "B", "O", "G", "U", "S">>), KeyStr(<<"L", "_", "B", "R", "A", "N", "C", "H", "_">>), KeyStr(<<"L", "_", "B", "R", "A", "N", "C", "H", "_", "X">>),
     KeyStr(<<"L", "_", "B", "R", "A", "N", "C", "H", "_", "X", "_", "1", "2">>), KeyStr(<<"L", "_", "B", "R", "A", "N", "C", "H", "_", "-", "5">>), KeyStr(<<"L", "_", "S", "E", "C", "T", "O", "R", "_", " ", "7">>),
     KeyStr(<<>>)}
TranslationRecords ==
    [translationKey : TranslationKeys, nameSv : {None, Some("Energi")},
     nameEn : {Some("Energy")}]

(* item.get("translationKey", ""): the default only replaces an absent key *)
get_translationKey(item) ==
    IF item.translationKey.has THEN item.translationKey.v ELSE Some(<<>>)

(* None.startswith: AttributeError, which the property does not catch *)
KeyRaises(item) == IsNone(get_translationKey(item))

(* the test of the loop body and the int() inside its try *)
Selected(item, prefix) ==
    /\ startswith(Val(get_translationKey(item)), prefix)
    /\ int_ok(split_last(Val(get_translationKey(item))))

TranslationItem(item) ==
    [id |-> int(split_last(Val(get_translationKey(item)))),
     nameSv |-> item.nameSv, nameEn |-> item.nameEn]

RECURSIVE Collect(_, _)
Collect(items, prefix) ==
    IF items = <<>> THEN <<>>
    ELSE (IF Selected(Head(items), prefix)
          THEN <<TranslationItem(Head(items))>> ELSE <<>>)
         \o Collect(Tail(items), prefix)

(* the branches, sectors and countries properties *)
Derive(category, items) ==
    IF \E i \in 1..Len(items) : KeyRaises(items[i])
    THEN [kind |-> "raise", cls |-> "AttributeError", items |-> <<>>]
    ELSE [kind |-> "return", cls |-> "",
          items |-> Collect(items, CategoryPrefix(category))]

DeriveTranslations ==
    \E category \in Categories, r1 \in TranslationRecords,
       r2 \in TranslationRecords :
        /\ fn = ""
        /\ fn' = category
        /\ input' = <<r1, r2>>
        /\ output' = Derive(category, <<r1, r2>>)
        /\ UNCHANGED <<clientvars, lifevars, retryvars>>

(* Entities with aliased fields (models.py).  No model sets model_config, *)
(* so pydantic's defaults hold: a field with an alias is read from its     *)
(* alias only, keys that are no field are ignored, assignment is allowed   *)

(* variant: ConfigDict(populate_by_name=True) *)
populate_by_name_on == TRUE

(* the default of BaseModel *)
populate_by_name == FALSE

(* variant: ConfigDict(frozen=True) *)
frozen_on == TRUE

(* the default of BaseModel *)
frozen == FALSE

(* Field(alias=...), Field(...) and a field without default are required *)
Aliased(name, alias, required) == [name |-> name, alias |-> alias, required |-> required]
Plain(name, required) == [name |-> name, alias |-> name, required |-> required]

EntityClasses == {"Branch", "Instrument", "KpisHistoryComp"}
Fields(class) ==
    CASE class = "Branch" ->
             <<Plain("id", TRUE), Plain("name", FALSE),
               Aliased("sector_id", "sectorId", TRUE)>>
      [] class = "Instrument" ->
             <<Aliased("ins_id", "insId", TRUE), Plain("name", TRUE),
               Aliased("url_name", "urlName", TRUE),
               Aliased("instrument_type", "instrument", TRUE),
               Plain("isin", TRUE), Plain("ticker", TRUE),
               Aliased("yahoo_symbol", "yahoo", TRUE),
               Aliased("sector_id", "sectorId", FALSE),
               Aliased("market_id", "marketId", TRUE),
               Aliased("branch_id", "branchId", FALSE),
               Aliased("country_id", "countryId", FALSE),
               Aliased("listing_date", "listingDate", FALSE),
               Aliased("stock_price_currency", "stockPriceCurrency", FALSE),
               Aliased("report_currency", "reportCurrency", FALSE)>>
      [] class = "KpisHistoryComp" ->
             <<Plain("instrument", TRUE), Plain("values", FALSE),
               Plain("error", FALSE), Aliased("kpi_id", "kpiId", FALSE)>>
FieldSet(class) == {Fields(class)[i] : i \in 1..Len(Fields(class))}
FieldNames(class) == {f.name : f \in FieldSet(class)}
AliasedNames(class) == {f.name : f \in {g \in FieldSet(class) : g.alias # g.name}}

(* a valid JSON object of the class: every field has a value, and the     *)
(* fields named in canonical are spelled with the field name, the others   *)
(* with the alias                                                          *)
FixtureValue(f) == "value of " \o f.name
Spelled(f, canonical) == IF f.name \in canonical THEN f.name ELSE f.alias
JsonObject(class, canonical) ==
    [k \in {Spelled(f, canonical) : f \in FieldSet(class)} |->
        FixtureValue(CHOOSE f \in FieldSet(class) : Spelled(f, canonical) = k)]
Spellings(class) ==
    {{}, AliasedNames(class)} \cup {{n} : n \in AliasedNames(class)}

(* the keys a field is read from *)
FieldKeys(f) == IF populate_by_name THEN {f.alias, f.name} ELSE {f.alias}
Present(f, doc) == FieldKeys(f) \cap DOMAIN doc # {}
ReadField(f, doc) ==
    IF f.alias \in DOMAIN doc THEN Some(doc[f.alias])
    ELSE IF Present(f, doc) THEN Some(doc[f.name])
    ELSE None

(* the constructor of the class: a ValidationError when a required field is not present *)
Construct(class, doc) ==
    IF \A f \in FieldSet(class) : f.required => Present(f, doc)
    THEN [ok |-> TRUE, assigned |-> <<>>,
          fields |-> [n \in FieldNames(class) |->
                         ReadField(CHOOSE f \in FieldSet(class) : f.name = n, doc)]]
    ELSE [ok |-> FALSE, assigned |-> <<>>,
          fields |-> [n \in FieldNames(class) |-> None]]

(* entity.name = value: BaseModel.__setattr__ *)
AssignedValues == {"changed"}
setattr(entity, name, value) ==
    IF frozen
    THEN [entity EXCEPT
              !.assigned = Append(@, [name |-> name, value |-> value, raised |-> TRUE])]
    ELSE [entity EXCEPT
              !.fields[name] = Some(value),
              !.assigned = Append(@, [name |-> name, value |-> value, raised |-> FALSE])]

ParseEntity ==
    \E class \in EntityClasses :
        \E canonical \in Spellings(class) :
            /\ fn = ""
            /\ fn' = class
            /\ input' = [canonical |-> canonical, doc |-> JsonObject(class, canonical)]
            /\ output' = Construct(class, JsonObject(class, canonical))
            /\ UNCHANGED <<clientvars, lifevars, retryvars>>

(* the caller assigns to a field of the entity it was given *)
SetAttr ==
    /\ fn \in EntityClasses
    /\ output.ok
    /\ Len(output.assigned) < MaxAssignments
    /\ \E name \in FieldNames(fn), value \in AssignedValues :
           output' = setattr(output, name, value)
    /\ UNCHANGED <<fn, input, clientvars, lifevars, retryvars>>

(* StockPrice (models.py): d: Optional[str] = None, c: float required, and *)
(* get_date, which reads d with strptime("%Y-%m-%d")                       *)

(* the two positions of the dashes of a text with exactly two of them *)
Dashes(str) == {i \in 1..Len(str) : str[i] = "-"}
FirstDash(str) == CHOOSE i \in Dashes(str) : \A j \in Dashes(str) : i <= j
SecondDash(str) == CHOOSE i \in Dashes(str) : \A j \in Dashes(str) : j <= i

LeapYear(y) == (y % 4 = 0 /\ y % 100 # 0) \/ y % 400 = 0
DaysInMonth(y, m) ==
    IF m = 2 THEN (IF LeapYear(y) THEN 29 ELSE 28)
    ELSE IF m \in {4, 6, 9, 11} THEN 30 ELSE 31

(* datetime.strptime(str, "%Y-%m-%d"): four digits, one or two digits of a *)
(* month, one or two digits of a day of that month; ValueError otherwise   *)
strptime(str) ==
    IF Cardinality(Dashes(str)) # 2
    THEN [kind |-> "raise", value |-> None]
    ELSE LET ys == SubSeq(str, 1, FirstDash(str) - 1)
             ms == SubSeq(str, FirstDash(str) + 1, SecondDash(str) - 1)
             ds == SubSeq(str, SecondDash(str) + 1, Len(str))
         IN  IF /\ AllDigits(ys) /\ Len(ys) = 4
                /\ AllDigits(ms) /\ Len(ms) <= 2
                /\ AllDigits(ds) /\ Len(ds) <= 2
                /\ DecimalValue(ms) \in 1..12
                /\ DecimalValue(ds) \in 1..DaysInMonth(DecimalValue(ys), DecimalValue(ms))
             THEN [kind |-> "return",
                   value |-> Some([y |-> DecimalValue(ys), m |-> DecimalValue(ms),
                                   d |-> DecimalValue(ds)])]
             ELSE [kind |-> "raise", value |-> None]

(* the d and c entries of a price row: absent, null, or a value; the text  *)
(* of d is a sequence of characters, c is a number or something else       *)
DateTexts ==
    {<<"2", "0", "2", "3", "-", "0", "1", "-", "0", "1">>,
     <<"2", "0", "2", "4", "-", "0", "2", "-", "2", "9">>,
     <<"2", "0", "2", "3", "-", "0", "2", "-", "3", "0">>,
     <<"2", "0", "2", "3", "-", "1", "-", "5">>,
     <<"n", "o", "t", "-", "a", "-", "d", "a", "t", "e">>, <<>>}
PriceRowDs == {KeyAbsent, KeyNull} \cup {KeyStr(t) : t \in DateTexts}
PriceRowCs == {"absent", "null", "100.0", "abc"}
PriceRows == [d : PriceRowDs, c : PriceRowCs]

(* StockPrice.get_date *)
get_date(d) ==
    IF IsNone(d) THEN [kind |-> "return", value |-> None]
    ELSE strptime(Val(d))

(* the constructor of StockPrice and a call of get_date on the entity *)
StockPrice(row) ==
    IF row.c = "100.0"
    THEN [ok |-> TRUE, d |-> row.d.v, c |-> Some(row.c), date |-> get_date(row.d.v)]
    ELSE [ok |-> FALSE, d |-> None, c |-> None, date |-> [kind |-> "none", value |-> None]]

ParseStockPrice ==
    \E row \in PriceRows :
        /\ fn = ""
        /\ fn' = "StockPrice"
        /\ input' = row
        /\ output' = StockPrice(row)
        /\ UNCHANGED <<clientvars, lifevars, retryvars>>

(* KpiValue (models.py): i: int required, n: Optional[float] = None and    *)
(* s: Optional[str] = None, with no validator relating n and s             *)
KpiValueStates == {"absent", "null", "value", "bad"}
KpiValueRows == [n : KpiValueStates, s : KpiValueStates]

(* variant with a validator that rejects a row carrying both *)
KpiValueValid_exclusive(row) ==
    /\ row.n # "bad" /\ row.s # "bad"
    /\ ~(row.n = "value" /\ row.s = "value")

(* each field is validated on its own *)
KpiValueValid(row) == row.n # "bad" /\ row.s # "bad"

KpiValue(row) ==
    IF KpiValueValid(row)
    THEN [ok |-> TRUE,
          n |-> IF row.n = "value" THEN Some("100.0") ELSE None,
          s |-> IF row.s = "value" THEN Some("Test") ELSE None]
    ELSE [ok |-> FALSE, n |-> None, s |-> None]

ParseKpiValue ==
    \E row \in KpiValueRows :
        /\ fn = ""
        /\ fn' = "KpiValue"
        /\ input' = row
        /\ output' = KpiValue(row)
        /\ UNCHANGED <<clientvars, lifevars, retryvars>>

(* Lists of prices (client.py, models.py).  get_stock_prices builds the   *)
(* list with one StockPrice per row of the body; get_stock_prices_batch    *)
(* has pydantic validate stockPricesList: Optional[List[StockPrice]] of a  *)
(* record of the envelope.  Either way one ValidationError ends the call   *)

MaxElements == 3
ElementCs == {"100.0", "absent", "abc"}
PriceElement(c) ==
    [d |-> KeyStr(<<"2", "0", "2", "3", "-", "0", "1", "-", "0", "1">>), c |-> c]
ElementLists == UNION {[1..n -> ElementCs] : n \in 0..MaxElements}
PriceListOps == {"get_stock_prices", "get_stock_prices_batch"}

(* variant that leaves out the rows that do not validate *)
RECURSIVE ValidateList_skipping(_)
ValidateList_skipping(cs) ==
    IF cs = <<>> THEN [kind |-> "return", cls |-> "", items |-> <<>>]
    ELSE LET o == StockPrice(PriceElement(Head(cs)))
             rest == ValidateList_skipping(Tail(cs))
         IN  IF ~o.ok THEN rest
             ELSE [rest EXCEPT !.items = <<o>> \o rest.items]

(* the rows are validated in order; a row that does not validate raises   *)
(* and nothing of the list is returned                                     *)
RECURSIVE ValidateList(_)
ValidateList(cs) ==
    IF cs = <<>> THEN [kind |-> "return", cls |-> "", items |-> <<>>]
    ELSE LET o == StockPrice(PriceElement(Head(cs)))
             rest == ValidateList(Tail(cs))
         IN  IF ~o.ok \/ rest.kind = "raise"
             THEN [kind |-> "raise", cls |-> "ValidationError", items |-> <<>>]
             ELSE [rest EXCEPT !.items = <<o>> \o rest.items]

(* what the operation returns for a body with these rows; the batch      *)
(* operation returns the record that holds the list                       *)
ListResult(name, cs) ==
    LET rows == ValidateList(cs)
    IN  IF name = "get_stock_prices" \/ rows.kind = "raise" THEN rows
        ELSE [rows EXCEPT
                 !.items = <<[instrument |-> 1, error |-> None,
                              stockPricesList |-> rows.items]>>]

ParseList ==
    \E name \in PriceListOps, cs \in ElementLists :
        /\ fn = ""
        /\ fn' = "ParseList"
        /\ input' = [op |-> name, elems |-> cs]
        /\ output' = ListResult(name, cs)
        /\ UNCHANGED <<clientvars, lifevars, retryvars>>

(* the parsing steps of models.py, taken alone *)
ModelsNext ==
    \/ ParseBatch
    \/ ParseList
    \/ DeriveTranslations
    \/ ParseEntity
    \/ SetAttr
    \/ ParseStockPrice
    \/ ParseKpiValue
    \/ FnReturn

ModelsSpec == Init /\ [][ModelsNext]_vars

----------------------------------------------------------------------------
(* The tool adapter (mcp_server/server.py) *)

(* _list_tools_handler: the names of the Tool objects, in order *)
list_tools ==
    <<"get_instruments",
      "get_global_instruments",
      "get_markets",
      "get_branches",
      "get_sectors",
      "get_countries",
      "get_stock_prices",
      "get_stock_prices_batch",
      "get_last_stock_prices",
      "get_last_global_stock_prices",
      "get_stock_prices_by_date",
      "get_global_stock_prices_by_date",
      "get_reports",
      "get_reports_batch",
      "get_reports_metadata",
      "get_kpi_metadata",
      "get_kpi_updated",
      "get_kpi_history",
      "get_kpi_history_batch",
      "get_kpi_summary",
      "get_insider_holdings",
      "get_short_positions",
      "get_buybacks",
      "get_instrument_descriptions",
      "get_report_calendar",
      "get_dividend_calendar",
      "get_stock_splits",
      "get_translation_metadata">>

(* the if/elif chain of _call_tool_handler: the name compared and the      *)
(* client method the branch calls                                          *)
DispatchChain ==
    <<<<"get_instruments", "get_instruments">>,
      <<"get_global_instruments", "get_global_instruments">>,
      <<"get_markets", "get_markets">>,
      <<"get_branches", "get_branches">>,
      <<"get_sectors", "get_sectors">>,
      <<"get_countries", "get_countries">>,
      <<"get_stock_prices", "get_stock_prices">>,
      <<"get_stock_prices_batch", "get_stock_prices_batch">>,
      <<"get_last_stock_prices", "get_last_stock_prices">>,
      <<"get_last_global_stock_prices", "get_last_global_stock_prices">>,
      <<"get_stock_prices_by_date", "get_stock_prices_by_date">>,
      <<"get_global_stock_prices_by_date", "get_global_stock_prices_by_date">>,
      <<"get_reports", "get_reports">>,
      <<"get_reports_batch", "get_reports_batch">>,
      <<"get_reports_metadata", "get_reports_metadata">>,
      <<"get_kpi_metadata", "get_kpi_metadata">>,
      <<"get_kpi_updated", "get_kpi_updated">>,
      <<"get_kpi_history", "get_kpi_history">>,
      <<"get_kpi_history_batch", "get_kpi_history_batch">>,
      <<"get_kpi_summary", "get_kpi_summary">>,
      <<"get_insider_holdings", "get_insider_holdings">>,
      <<"get_short_positions", "get_short_positions">>,
      <<"get_buybacks", "get_buybacks">>,
      <<"get_instrument_descriptions", "get_instrument_descriptions">>,
      <<"get_report_calendar", "get_report_calendar">>,
      <<"get_dividend_calendar", "get_dividend_calendar">>,
      <<"get_stock_splits", "get_stock_splits">>,
      <<"get_translation_metadata", "get_translation_metadata">>>>

(* variant of the chain that never reaches its last branch *)
Dispatch_short(name) ==
    IF \E i \in 1..(Len(DispatchChain) - 1) : DispatchChain[i][1] = name
    THEN DispatchChain[CHOOSE i \in 1..(Len(DispatchChain) - 1) :
             /\ DispatchChain[i][1] = name
             /\ \A j \in 1..(i - 1) : DispatchChain[j][1] # name][2]
    ELSE ""

(* the method of the first branch whose name matches, "" for the else *)
Dispatch(name) ==
    IF \E i \in 1..Len(DispatchChain) : DispatchChain[i][1] = name
    THEN DispatchChain[CHOOSE i \in 1..Len(DispatchChain) :
             /\ DispatchChain[i][1] = name
             /\ \A j \in 1..(i - 1) : DispatchChain[j][1] # name][2]
    ELSE ""

(* the arguments a branch reads before it calls the client, in order:      *)
(* arguments[key], strptime(arguments[key]) and strptime under "if key in" *)
Required(key) == [key |-> key, mode |-> "required"]
RequiredDate(key) == [key |-> key, mode |-> "reqdate"]
OptionalDate(key) == [key |-> key, mode |-> "optdate"]
ArgSteps(name) ==
    CASE name = "get_stock_prices" ->
             <<Required("instrument_id"), OptionalDate("from_date"),
               OptionalDate("to_date")>>
      [] name = "get_stock_prices_batch" ->
             <<Required("instrument_ids"), OptionalDate("from_date"),
               OptionalDate("to_date")>>
      [] name \in {"get_stock_prices_by_date", "get_global_stock_prices_by_date"} ->
             <<RequiredDate("date")>>
      [] name = "get_reports" -> <<Required("instrument_id")>>
      [] name = "get_kpi_history" ->
             <<Required("instrument_id"), Required("kpi_id"), Required("report_type")>>
      [] name = "get_kpi_history_batch" ->
             <<Required("instrument_ids"), Required("kpi_id"), Required("report_type")>>
      [] name = "get_kpi_summary" ->
             <<Required("instrument_id"), Required("report_type")>>
      [] name \in {"get_reports_batch", "get_insider_holdings", "get_buybacks",
                   "get_instrument_descriptions", "get_report_calendar",
                   "get_dividend_calendar"} ->
             <<Required("instrument_ids")>>
      [] name = "get_stock_splits" -> <<OptionalDate("from_date")>>
      [] OTHER -> <<>>

(* an argument is absent from the mapping, well formed, or malformed *)
ArgStates == {"absent", "good", "bad"}
ArgKeys(name) == {ArgSteps(name)[i].key : i \in 1..Len(ArgSteps(name))}
ArgumentMappings(name) == [ArgKeys(name) -> ArgStates]

NoFailure == NoResult
RECURSIVE ArgFailure(_, _)
ArgFailure(steps, arguments) ==
    IF steps = <<>> THEN NoFailure
    ELSE LET st == Head(steps) IN
         IF st.mode \in {"required", "reqdate"} /\ arguments[st.key] = "absent"
         THEN Raise("KeyError", 0, "'" \o st.key \o "'", "")
         ELSE IF st.mode \in {"reqdate", "optdate"} /\ arguments[st.key] = "bad"
         THEN Raise("ValueError", 0,
                    "time data 'bad' does not match format '%Y-%m-%d'", "")
         ELSE ArgFailure(Tail(steps), arguments)

(* what the client method can answer: the operation on every server       *)
(* response, its own precondition failure, and a TypeError on an argument  *)
(* of the wrong type                                                       *)
ClientResults(name, arguments) ==
    {Finish(name, GetOutcome(get_wrapper(r))) : r \in ServerResponses}
        \cup (IF name \in {"get_stock_prices_batch", "get_reports_batch",
                           "get_kpi_history_batch"}
              THEN {Raise("AssertionError", 0, TooManyIdsMsg, "")} ELSE {})
        \cup (IF \E k \in DOMAIN arguments : arguments[k] = "bad"
              THEN {Raise("TypeError", 0, "argument of the wrong type", "")}
              ELSE {})

(* the expression under json.dumps of each branch *)
ObjectTools == {"get_kpi_history", "get_kpi_history_batch", "get_translation_metadata"}
Serialize(name, r) ==
    IF name = "get_kpi_updated"
    THEN (IF r.value = "None"
          THEN Raise("AttributeError", 0,
                     "'NoneType' object has no attribute 'isoformat'", "")
          ELSE r)
    ELSE IF name \in ObjectTools THEN r
    ELSE IF r.value = "None" THEN NotIterable
    ELSE r

TextContent(text) == [type |-> "text", text |-> text]

ExceptionClasses ==
    {"ValueError", "KeyError", "TypeError", "AttributeError", "AssertionError",
     "BorsdataClientError", "ValidationError"}

(* variant of the except clause that catches the client's error only *)
Caught_client_only(cls) == cls = "BorsdataClientError"

(* except Exception *)
Caught(cls) == cls \in ExceptionClasses

(* the try body: the first exception raised, or the value serialized *)
TryBody(name, arguments, r) ==
    IF Dispatch(name) = "" THEN Raise("ValueError", 0, "Unknown tool: " \o name, "")
    ELSE IF ArgFailure(ArgSteps(name), arguments).kind = "raise"
    THEN ArgFailure(ArgSteps(name), arguments)
    ELSE IF r.kind = "raise" THEN r
    ELSE Serialize(name, r)

call_tool_handler(name, arguments, r) ==
    LET b == TryBody(name, arguments, r) IN
    IF b.kind = "return"
    THEN [escaped |-> FALSE, branch |-> Dispatch(name),
          content |-> <<TextContent([data |-> b.value])>>]
    ELSE IF Caught(b.cls)
    THEN [escaped |-> FALSE, branch |-> Dispatch(name),
          content |-> <<TextContent([error |-> b.msg, tool |-> name])>>]
    ELSE [escaped |-> TRUE, branch |-> Dispatch(name), content |-> <<>>]

ToolNames == {list_tools[i] : i \in 1..Len(list_tools)}
RequestedNames == ToolNames \cup {"get_everything"}

ListTools ==
    /\ fn = ""
    /\ fn' = "_list_tools_handler"
    /\ input' = <<>>
    /\ output' = list_tools
    /\ UNCHANGED <<clientvars, lifevars, retryvars>>

CallTool ==
    \E name \in RequestedNames :
        \E arguments \in ArgumentMappings(name) :
            \E r \in ClientResults(name, arguments) :
                /\ fn = ""
                /\ fn' = "_call_tool_handler"
                /\ input' = [name |-> name, arguments |-> arguments, answer |-> r]
                /\ output' = call_tool_handler(name, arguments, r)
                /\ UNCHANGED <<clientvars, lifevars, retryvars>>

ToolNext ==
    \/ ListTools
    \/ CallTool
    \/ FnReturn

ToolSpec == Init /\ [][ToolNext]_vars

----------------------------------------------------------------------------
(* Vocabulary of the properties *)

Max(a, b) == IF a >= b THEN a ELSE b
Last(q) == q[Len(q)]

RateLimited(r) == r.kind = "http" /\ r.status = TooManyRequests
OtherErrorStatus(r) == r.kind = "http" /\ ~IsSuccess(r.status) /\ ~RateLimited(r)
ConnectionFailure(r) == r.kind = "connfail"
Success(r) == r.kind = "http" /\ IsSuccess(r.status)
Decodable(r) == Success(r) /\ r.raw # "<html>"

AllRateLimited(q) == \A i \in 1..Len(q) : RateLimited(q[i])
Front(q) == SubSeq(q, 1, Len(q) - 1)

ApiError(status) ==
    Raise("BorsdataClientError", status,
          "API request failed with status code " \o ToString(status) \o ": "
              \o ReasonPhrase(status),
          "HTTPStatusError")

(* C1, as stated: with retry enabled and only 429 answers, a finished call *)
(* has made exactly max_retries GETs and raised the API error of 429       *)
C1_ExactlyMaxRetriesGets ==
    (retry /\ pc = "done" /\ responses # <<>> /\ AllRateLimited(responses))
        => (Len(sent) = max_retries /\ result = ApiError(TooManyRequests))

(* C1, amended: with retry enabled and only 429 answers, a finished call   *)
(* has made exactly max(1, max_retries) GETs and raised the API error of   *)
(* 429; an unfinished one has made fewer than max(1, max_retries) attempts *)
(* but the one in progress                                                 *)
C1_ExhaustsAttempts ==
    (retry /\ responses # <<>> /\ AllRateLimited(responses))
        => IF pc = "done"
           THEN /\ Len(sent) = Max(1, max_retries)
                /\ result = ApiError(TooManyRequests)
           ELSE Len(sent) < max_retries

C1_Witness ==
    /\ retry /\ pc = "done" /\ max_retries >= 2
    /\ AllRateLimited(responses) /\ Len(sent) = max_retries
    /\ result = ApiError(TooManyRequests)

(* C2: with retry enabled, k answers of 429 with 1 <= k < max_retries do   *)
(* not end the call, and when answer k+1 is a 2xx with a JSON body the     *)
(* transport invoker raises nothing, _get returns the decoded body and     *)
(* exactly k+1 GETs were issued                                            *)
C2_SucceedsAfterRateLimits ==
    /\ (retry /\ AllRateLimited(responses)
           /\ 1 <= Len(responses) /\ Len(responses) < max_retries)
        => pc \in {"sleep", "attempt"}
    /\ (retry /\ pc = "done" /\ Len(responses) >= 2
           /\ Len(responses) <= max_retries
           /\ AllRateLimited(Front(responses)) /\ Decodable(Last(responses)))
        => /\ Len(sent) = Len(responses)
           /\ result.cls # "BorsdataClientError"
           /\ op = "_get" =>
                  result = Return("dict", JsonDecode(Last(responses).raw).coll)

C2_Witness ==
    /\ retry /\ pc = "done" /\ op = "_get"
    /\ Len(responses) = 3 /\ Len(sent) = 3
    /\ AllRateLimited(Front(responses))
    /\ Last(responses) = [kind |-> "http", status |-> 200, raw |-> "{K: [row]}"]
    /\ result = Return("dict", "rows")

(* C3: an answer with a non-2xx status other than 429 is always the last   *)
(* answer of its call, retry enabled or not: the call is over and raised   *)
(* the API error carrying that status, so such a first answer means        *)
(* exactly one GET                                                         *)
C3_OtherStatusNotRetried ==
    \A i \in 1..Len(responses) :
        OtherErrorStatus(responses[i])
            => /\ i = Len(responses)
               /\ Len(sent) = i
               /\ pc = "done"
               /\ result = ApiError(responses[i].status)

C3_Witness ==
    /\ retry /\ max_retries >= 2 /\ pc = "done"
    /\ responses = <<[kind |-> "http", status |-> 500, raw |-> ""]>>
    /\ Len(sent) = 1
    /\ result.status = 500

(* C4: with retry disabled the retryer never waits, a call that reached    *)
(* _get has issued exactly one GET when it is over, and an answer of 429   *)
(* is raised at once as the API error of 429                               *)
C4_RetryDisabledSingleGet ==
    ~retry
        => /\ pc # "sleep"
           /\ Len(sent) <= 1
           /\ (pc = "done" /\ url # "") => Len(sent) = 1
           /\ (responses # <<>> /\ RateLimited(responses[1]))
                  => (pc = "done" /\ result = ApiError(TooManyRequests))

C4_Witness ==
    /\ ~retry /\ max_retries >= 2 /\ pc = "done"
    /\ Len(sent) = 1 /\ RateLimited(responses[1])
    /\ result = ApiError(TooManyRequests)

(* C5: a connection failure is always the last attempt of its call, even   *)
(* with retry enabled: the call is over and raised the client error that   *)
(* wraps the cause and carries its message                                 *)
C5_ConnectionFailureNotRetried ==
    \A i \in 1..Len(responses) :
        ConnectionFailure(responses[i])
            => /\ i = Len(responses)
               /\ Len(sent) = i
               /\ pc = "done"
               /\ result = Raise("BorsdataClientError", 0,
                                 "API request failed: Connection error",
                                 "ConnectError")

C5_Witness ==
    /\ retry /\ max_retries >= 2 /\ pc = "done"
    /\ Len(sent) = 1 /\ ConnectionFailure(responses[1])
    /\ result.cause = "ConnectError"

(* C6: a 2xx answer is always the last of its call; when its body is not   *)
(* JSON the call raised the client error wrapping the decode error, and    *)
(* when a row of the body does not validate the call raised the validation *)
(* error: neither is retried                                               *)
C6_DecodeAndValidationNotRetried ==
    \A i \in 1..Len(responses) :
        Success(responses[i])
            => /\ i = Len(responses)
               /\ Len(sent) = i
               /\ pc = "done"
               /\ ~Decodable(responses[i])
                      => result = Raise("BorsdataClientError", 0,
                                        "API request failed: Expecting value",
                                        "JSONDecodeError")
               /\ (responses[i].raw = "{K: [badrow]}" /\ op \in ListOps)
                      => result.cls = "ValidationError"

C6_Witness ==
    /\ retry /\ max_retries >= 2 /\ pc = "done"
    /\ responses = <<[kind |-> "http", status |-> 200, raw |-> "<html>"]>>
    /\ Len(sent) = 1
    /\ result.cause = "JSONDecodeError"

(* C7: every GET of a call, retries included, goes to BASE_URL + endpoint  *)
(* with the caller's parameters and an authKey equal to the configured     *)
(* key, whatever authKey the caller supplied                               *)
CallerDict == IF IsNone(given) THEN EmptyDict ELSE Val(given)
C7_AuthKeyOnEveryGet ==
    \A i \in 1..Len(sent) :
        /\ sent[i].url = BASE_URL \o endpoint
        /\ DOMAIN sent[i].params = DOMAIN CallerDict \cup {"authKey"}
        /\ sent[i].params["authKey"] = api_key
        /\ \A k \in DOMAIN CallerDict \ {"authKey"} :
               sent[i].params[k] = CallerDict[k]

C7_Witness ==
    /\ Len(sent) >= 2
    /\ ~IsNone(given)
    /\ DOMAIN Val(given) = {"authKey", "param1"}
    /\ Val(given)["authKey"] # api_key
    /\ sent[2].params["authKey"] = api_key
    /\ sent[2].params["param1"] = "value1"

BatchOps ==
    {"get_stock_prices_batch", "get_reports_batch", "get_kpi_history_batch",
     "get_insider_holdings", "get_buybacks", "get_instrument_descriptions",
     "get_report_calendar", "get_dividend_calendar"}

(* C8: a call of a batch operation with more than 50 instrument ids is     *)
(* over with a failed assertion and no GET                                 *)
C8_TooManyIdsRejected ==
    (op \in BatchOps /\ Len(args.ids.items) > MaxInstruments)
        => (pc = "done" /\ result.cls = "AssertionError" /\ sent = <<>>)

C9_WitnessSent ==
    /\ op = "get_reports_batch" /\ pc = "done"
    /\ args.max_year_count = Some(MaxYearCount)
    /\ args.max_quarter_r12_count = Some(1)
    /\ Len(sent) = 1
    /\ sent[1].params["maxYearCount"] = "20"
    /\ sent[1].params["maxQuarterR12Count"] = "1"

(* C10: a list-returning operation whose answer is a 2xx envelope with an  *)
(* empty, absent or null collection returns the empty list                 *)
C10_EmptyEnvelopeGivesEmptyList ==
    (pc = "done" /\ op \in ListOps /\ responses # <<>>
         /\ Success(Last(responses))
         /\ Last(responses).raw \in {"{}", "{K: null}", "{K: []}"})
        => result = Return("[]", "")

(* a record that carries an error and no values; a record with rows and no error *)
FailedRecord(r) == r.error \notin {"absent", "null"} /\ r.values \in {"absent", "null"}
SoundRecord(r) == r.error = "null" /\ r.values = "rows"

(* C11: a batch answer in which one record has an error and no values and  *)
(* the others have rows parses: nothing is raised, every record is         *)
(* returned, the failing one with its error string, the others with rows   *)
C11_RecordErrorPreserved ==
    (fn \in PerInstrumentOps
         /\ \E i \in 1..Len(input) :
                /\ FailedRecord(input[i])
                /\ \A j \in (1..Len(input)) \ {i} : SoundRecord(input[j]))
        => /\ output.kind = "return"
           /\ Len(output.records) = Len(input)
           /\ \A i \in 1..Len(input) :
                  IF FailedRecord(input[i])
                  THEN output.records[i].error = Some(input[i].error)
                  ELSE output.records[i].values = "rows"

(* a key of the form <prefix><digits>, and the number its digits spell *)
WellFormed(item, prefix) ==
    /\ item.translationKey.has
    /\ ~IsNone(item.translationKey.v)
    /\ startswith(Val(item.translationKey.v), prefix)
    /\ AllDigits(SubSeq(Val(item.translationKey.v), Len(prefix) + 1,
                        Len(Val(item.translationKey.v))))
NumericSuffix(item, prefix) ==
    DecimalValue(SubSeq(Val(item.translationKey.v), Len(prefix) + 1,
                        Len(Val(item.translationKey.v))))
RECURSIVE WellFormedIds(_, _)
WellFormedIds(items, prefix) ==
    IF items = <<>> THEN <<>>
    ELSE (IF WellFormed(Head(items), prefix)
          THEN <<NumericSuffix(Head(items), prefix)>> ELSE <<>>)
         \o WellFormedIds(Tail(items), prefix)

(* C12: deriving a collection never raises and yields exactly the records  *)
(* whose key is the category prefix followed by digits, each with the      *)
(* numeric suffix as id; every other record is skipped                     *)
C12_ExactlyWellFormedKeys ==
    fn \in Categories
        => /\ output.kind = "return"
           /\ [i \in 1..Len(output.items) |-> output.items[i].id]
                  = WellFormedIds(input, CategoryPrefix(fn))

(* the requests the handler cannot serve: an unknown name, a required     *)
(* argument missing, a date that does not parse, a failed operation        *)
MissingArgument(name, arguments) ==
    \E i \in 1..Len(ArgSteps(name)) :
        /\ ArgSteps(name)[i].mode \in {"required", "reqdate"}
        /\ arguments[ArgSteps(name)[i].key] = "absent"
MalformedDate(name, arguments) ==
    \E i \in 1..Len(ArgSteps(name)) :
        /\ ArgSteps(name)[i].mode \in {"reqdate", "optdate"}
        /\ arguments[ArgSteps(name)[i].key] = "bad"
CannotServe(request) ==
    \/ request.name \notin ToolNames
    \/ MissingArgument(request.name, request.arguments)
    \/ MalformedDate(request.name, request.arguments)
    \/ request.answer.kind = "raise"
IsErrorObject(text, name) ==
    /\ DOMAIN text = {"error", "tool"}
    /\ text.tool = name
    /\ text.error # ""

(* C13: no exception escapes the call handler: every call returns exactly  *)
(* one text result, and for an unknown tool, a missing or malformed        *)
(* argument or a failed endpoint operation that result is the JSON object  *)
(* of an error message and the requested tool name                         *)
C13_HandlerNeverRaises ==
    fn = "_call_tool_handler"
        => /\ ~output.escaped
           /\ Len(output.content) = 1
           /\ output.content[1].type = "text"
           /\ CannotServe(input) => IsErrorObject(output.content[1].text, input.name)

C13_Witness ==
    /\ fn = "_call_tool_handler"
    /\ input.name \in ToolNames
    /\ input.answer.cls = "BorsdataClientError"
    /\ ~MissingArgument(input.name, input.arguments)
    /\ ~MalformedDate(input.name, input.arguments)
    /\ ~output.escaped
    /\ output.content = <<TextContent([error |-> input.answer.msg, tool |-> input.name])>>

(* C14: the catalogue lists 28 distinct names, and a call of a listed name *)
(* takes the branch of the client method of that name, never the           *)
(* unknown-tool error                                                      *)
C14_CatalogueDispatched ==
    /\ fn = "_list_tools_handler"
           => /\ Len(output) = 28
              /\ \A i, j \in 1..Len(output) : output[i] = output[j] => i = j
    /\ (fn = "_call_tool_handler" /\ input.name \in ToolNames)
           => /\ output.branch = input.name
              /\ \A i \in 1..Len(output.content) :
                     DOMAIN output.content[i].text = {"error", "tool"}
                         => output.content[i].text.error
                                # "Unknown tool: " \o input.name

C14_Witness ==
    /\ fn = "_call_tool_handler"
    /\ input.name = "get_translation_metadata"
    /\ output.branch = "get_translation_metadata"
    /\ output.content = <<TextContent([data |-> "object"])>>

C14_WitnessListed ==
    /\ fn = "_list_tools_handler"
    /\ Len(output) = 28

(* the operations whose rows are entities that validation can reject *)
EntityOps == ListOps \cup EnvelopeDefaultOps \cup {"get_kpi_updated"}

(* C15: when _get failed, the caller of the operation has the error _get   *)
(* raised, kind and message; when the entities of the body fail            *)
(* validation, the caller has the validation error; in both cases the      *)
(* operation returns no value                                              *)
C15_FailuresPropagate ==
    (pc = "done" /\ sent # <<>>)
        => LET o == get_wrapper(Last(responses)) IN
           /\ o.failed
                  => /\ result.kind = "raise"
                     /\ result.cls = "BorsdataClientError"
                     /\ result.cause = o.type
                     /\ result.msg = GetOutcome(o).msg
           /\ (~o.failed /\ o.body = "badrows" /\ op \in EntityOps)
                  => /\ result.kind = "raise"
                     /\ result.cls = "ValidationError"

C15_Witness ==
    /\ pc = "done"
    /\ op = "get_kpi_summary"
    /\ Last(responses).status = 401
    /\ result.kind = "raise"
    /\ result.msg = "API request failed with status code 401: Unauthorized"

C15_WitnessValidation ==
    /\ pc = "done"
    /\ op = "get_instruments"
    /\ Last(responses).raw = "{K: [badrow]}"
    /\ result.cls = "ValidationError"

(* the text a date has to be sent as *)
IsoText(d) ==
    CASE d = [y |-> 2020, m |-> 1, d |-> 1] -> "2020-01-01"
      [] d = [y |-> 2023, m |-> 12, d |-> 31] -> "2023-12-31"
FromToOps == {"get_stock_prices", "get_stock_prices_batch", "get_stock_splits"}
ByDateOps == {"get_stock_prices_by_date", "get_global_stock_prices_by_date"}
SentAs(q, key, date) ==
    IF IsNone(date) THEN key \notin DOMAIN q
    ELSE key \in DOMAIN q /\ q[key] = IsoText(Val(date))

(* C16: every GET of a date operation carries each supplied date as        *)
(* YYYY-MM-DD under from, to or date, and has no from or to key when that  *)
(* date was not supplied                                                   *)
C16_DatesAsIsoText ==
    \A i \in 1..Len(sent) :
        /\ op \in FromToOps
               => /\ SentAs(sent[i].params, "from", args.from_date)
                  /\ SentAs(sent[i].params, "to", args.to_date)
                  /\ "date" \notin DOMAIN sent[i].params
        /\ op \in ByDateOps
               => /\ ~IsNone(args.date)
                  /\ SentAs(sent[i].params, "date", args.date)

C16_Witness ==
    /\ op = "get_stock_prices"
    /\ Len(sent) = 1
    /\ args.from_date = Some([y |-> 2020, m |-> 1, d |-> 1])
    /\ args.to_date = None
    /\ sent[1].params["from"] = "2020-01-01"
    /\ "to" \notin DOMAIN sent[1].params

C16_WitnessByDate ==
    /\ op = "get_stock_prices_by_date"
    /\ Len(sent) = 1
    /\ sent[1].params["date"] = "2023-12-31"

(* C19 as stated: a client that has issued no request holds no handle *)
C19_HandleAcquiredLazily ==
    uses = 0 => handle = "none"

(* C19: the handle is made by the constructor: it is there and open before *)
(* the first request and stays open until the scope is left, so a client   *)
(* that is never used still has a handle to release                        *)
C19_HandleFromConstruction ==
    /\ scope # "left" => handle = "open"
    /\ handle # "none"

C19_Witness ==
    /\ uses = 0
    /\ scope = "left"
    /\ handle = "closed"
    /\ closes = 1

(* C20: leaving the with block, normally or by an exception, closes the    *)
(* handle exactly once, and an exception raised in the block reaches the   *)
(* caller                                                                  *)
C20_ScopeExitClosesOnce ==
    /\ scope = "left"
           => /\ closes = 1
              /\ handle = "closed"
              /\ reached = thrown
    /\ scope # "left" => closes = 0

C20_Witness ==
    /\ scope = "left"
    /\ uses > 0
    /\ thrown = "BorsdataClientError"
    /\ reached = "BorsdataClientError"
    /\ closes = 1

C20_WitnessNormal ==
    /\ scope = "left"
    /\ uses > 0
    /\ thrown = ""
    /\ closes = 1

(* the entity as its constructor left it *)
AsConstructed == Construct(fn, input.doc)

(* C17 as stated: the fields of a parsed entity keep the values the        *)
(* constructor gave them                                                   *)
C17_NoFieldReassigned ==
    (fn \in EntityClasses /\ output.ok) => output.fields = AsConstructed.fields

(* C17: entities are not frozen: an assignment by the caller to a field of *)
(* a parsed entity raises nothing and takes effect, and a field differs    *)
(* from what the constructor gave only where the caller assigned           *)
C17_OnlyCallerReassigns ==
    (fn \in EntityClasses /\ output.ok)
        => /\ \A i \in 1..Len(output.assigned) : ~output.assigned[i].raised
           /\ output.assigned # <<>>
                  => output.fields[Last(output.assigned).name]
                         = Some(Last(output.assigned).value)
           /\ \A n \in FieldNames(fn) :
                  output.fields[n] # AsConstructed.fields[n]
                      => \E i \in 1..Len(output.assigned) : output.assigned[i].name = n

C17_Witness ==
    /\ fn = "Branch"
    /\ AsConstructed.fields["name"] = Some("value of name")
    /\ output.assigned # <<>>
    /\ output.fields["name"] = Some("changed")

(* C18 as stated: an object parses to the same values whichever spelling   *)
(* its keys use                                                            *)
C18_SpellingIrrelevant ==
    (fn \in EntityClasses /\ output.assigned = <<>>)
        => /\ output.ok
           /\ \A f \in FieldSet(fn) : output.fields[f.name] = Some(FixtureValue(f))

(* C18: spelled with the aliases an object parses to its values; a field   *)
(* spelled with its canonical name is not read: the object is rejected     *)
(* when the field is required, and the field reads None otherwise          *)
C18_AliasSpellingOnly ==
    (fn \in EntityClasses /\ output.assigned = <<>>)
        => /\ input.canonical = {} => output.ok
           /\ output.ok
                  <=> \A f \in FieldSet(fn) : f.name \in input.canonical => ~f.required
           /\ output.ok
                  => \A f \in FieldSet(fn) :
                         output.fields[f.name]
                             = IF f.name \in input.canonical THEN None
                               ELSE Some(FixtureValue(f))

C18_Witness ==
    /\ fn = "KpisHistoryComp"
    /\ input.canonical = {"kpi_id"}
    /\ "kpi_id" \in DOMAIN input.doc
    /\ output.ok
    /\ output.fields["kpi_id"] = None
    /\ output.fields["instrument"] = Some("value of instrument")

C18_WitnessRejected ==
    /\ fn = "Instrument"
    /\ input.canonical = {"ins_id"}
    /\ ~output.ok

C18_WitnessAliases ==
    /\ fn = "Instrument"
    /\ input.canonical = {}
    /\ output.ok
    /\ output.fields["ins_id"] = Some("value of ins_id")

(* C21: a parsed StockPrice has its close, and get_date returns the       *)
(* calendar date its d spells: it returns no None and raises nothing       *)
C21_DateAlwaysParses ==
    (fn = "StockPrice" /\ output.ok)
        => /\ ~IsNone(output.c)
           /\ output.date.kind = "return"
           /\ ~IsNone(output.date.value)

(* C22 as stated: a parsed KpiValue has at most one of n and s, and a row *)
(* carrying both is rejected                                               *)
C22_AtMostOneValue ==
    (fn = "KpiValue")
        => /\ output.ok => (IsNone(output.n) \/ IsNone(output.s))
           /\ (input.n = "value" /\ input.s = "value") => ~output.ok

(* C22: n and s are independent optional fields: a row parses whenever     *)
(* each of them is absent, null or well typed, and the entity holds        *)
(* exactly the values the row carries, both when the row carries both      *)
C22_ValuesIndependent ==
    (fn = "KpiValue")
        => /\ output.ok <=> (input.n # "bad" /\ input.s # "bad")
           /\ output.ok
                  => /\ ~IsNone(output.n) <=> input.n = "value"
                     /\ ~IsNone(output.s) <=> input.s = "value"

C22_Witness ==
    /\ fn = "KpiValue"
    /\ input = [n |-> "value", s |-> "value"]
    /\ output.ok
    /\ output.n = Some("100.0")
    /\ output.s = Some("Test")

(* params of _get is the caller's own mapping when one was passed: the   *)
(* assignment of authKey writes to it, and the caller holds it afterwards  *)
CallerMapping == IF IsNone(given) THEN None ELSE Some(params)

(* C24 as stated: a finished call of _get leaves the mapping the caller   *)
(* passed with exactly the keys and values it had before the call         *)
C24_CallerMappingUntouched ==
    (pc = "done" /\ op = "_get" /\ ~IsNone(given))
        => CallerMapping = given

(* C25 as stated: every GET of a batch operation called with at most 50   *)
(* ids, a list or a generator, carries as instList the supplied ids in    *)
(* order, in decimal, joined by commas                                     *)
C25_InstListIsTheIds ==
    (op \in BatchOps /\ Len(args.ids.items) <= MaxInstruments)
        => \A i \in 1..Len(sent) :
               sent[i].params["instList"] = Join(args.ids.items)

(* C26 as stated: with retry enabled and only 429 answers, a finished     *)
(* call has made the first GET and max_retries retries                     *)
C26_MaxRetriesCountsRetries ==
    (retry /\ pc = "done" /\ responses # <<>> /\ AllRateLimited(responses))
        => Len(sent) = max_retries + 1

(* C29 as stated: get_reports_batch called with at most 50 ids and with   *)
(* None for a count, the other count None or in range, raises nothing     *)
(* before the request, leaves the parameter out and issues the GET        *)
C29_NoneCountAccepted ==
    (/\ op = "get_reports_batch"
     /\ Len(args.ids.items) <= MaxInstruments
     /\ IsNone(args.max_year_count) \/ IsNone(args.max_quarter_r12_count)
     /\ IsNone(args.max_year_count) \/ YearCountInRange(Val(args.max_year_count))
     /\ \/ IsNone(args.max_quarter_r12_count)
        \/ QuarterCountInRange(Val(args.max_quarter_r12_count)))
        => /\ pc = "done" => sent # <<>>
           /\ \A i \in 1..Len(sent) :
                  /\ IsNone(args.max_year_count)
                         => "maxYearCount" \notin DOMAIN sent[i].params
                  /\ IsNone(args.max_quarter_r12_count)
                         => "maxQuarterR12Count" \notin DOMAIN sent[i].params

(* the GETs of a call come one after the other: each has its answer before *)
(* the next is made, every GET but the last was answered 429, and one wait *)
(* was slept between two GETs                                              *)
Sequential ==
    /\ Len(responses) = Len(sent)
    /\ \A i \in 1..(Len(sent) - 1) : RateLimited(responses[i])
    /\ Len(waits) = IF pc = "attempt" THEN Len(sent) ELSE Max(0, Len(sent) - 1)

(* C23 as stated: the attempts of a call are sequential and the wait      *)
(* before each successive attempt is longer than the wait before the      *)
(* previous one                                                            *)
C23_EachWaitLonger ==
    /\ Sequential
    /\ \A k \in 2..Len(waits) : waits[k] > waits[k - 1]

(* C23: the attempts of a call are sequential, and the wait after attempt *)
(* k is at least 1 second and at most min(20, 2^(k-1)) seconds: the limit *)
(* of the waits grows, the waits themselves are drawn below it             *)
C23_WaitsBelowGrowingLimit ==
    /\ Sequential
    /\ \A k \in 1..Len(waits) :
           /\ waits[k] >= 1
           /\ waits[k] <= 2^(k - 1)
           /\ waits[k] <= 20

C23_Witness ==
    /\ retry /\ pc = "attempt"
    /\ Len(sent) = 2 /\ AllRateLimited(responses)
    /\ waits = <<1, 1>>

C23_WitnessLonger ==
    /\ retry /\ pc = "attempt"
    /\ Len(sent) = 2 /\ AllRateLimited(responses)
    /\ waits = <<1, 2>>

(* C27: a call of _get makes at least one and at most max(1, max_retries) *)
(* GETs; while it runs it has one more GET left to make, and when it is   *)
(* over its last answer was a body that _get returned, an error that is   *)
(* not retried, or a 429 on the last attempt the retryer permits           *)
C27_CallTerminates ==
    /\ Len(sent) <= Max(1, max_retries)
    /\ pc \in {"attempt", "sleep"} => Len(sent) < Max(1, max_retries)
    /\ (pc = "done" /\ endpoint # "")
        => /\ Len(sent) >= 1
           /\ LET o == get_wrapper(Last(responses))
              IN  \/ /\ ~o.failed
                     /\ result = Finish(op, Return("dict", o.body))
                  \/ /\ o.failed /\ ~RateLimited(Last(responses))
                     /\ result.kind = "raise"
                     /\ result.cls = "BorsdataClientError"
                     /\ result.cause = o.type
                  \/ /\ RateLimited(Last(responses))
                     /\ retry => Len(sent) = Max(1, max_retries)
                     /\ result = ApiError(TooManyRequests)

C27_Witness ==
    /\ retry /\ pc = "done" /\ max_retries = MaxRetriesBound
    /\ Len(sent) = max_retries
    /\ AllRateLimited(responses)
    /\ result = ApiError(TooManyRequests)

C27_WitnessSuccess ==
    /\ retry /\ pc = "done" /\ Len(sent) = 2
    /\ RateLimited(responses[1])
    /\ ~get_wrapper(responses[2]).failed

C27_WitnessNotRetried ==
    /\ retry /\ pc = "done" /\ Len(sent) = 2 /\ max_retries > 2
    /\ RateLimited(responses[1])
    /\ get_wrapper(responses[2]).failed
    /\ ~RateLimited(responses[2])

(* C28: every call under the retryer starts at attempt 1 with cleared     *)
(* statistics and nothing slept, whatever the calls before it did, makes  *)
(* its first GET before any wait, and on 429 answers only gets all         *)
(* max(1, max_retries) attempts                                            *)
C28_FreshBudgetEveryCall ==
    /\ (retry /\ pc = "attempt" /\ sent = <<>>)
        => /\ attempt_number = 1
           /\ statistics = [attempt_number |-> 1]
           /\ waits = <<>>
    /\ (retry /\ Len(sent) = 1 /\ pc \in {"sleep", "done"}) => waits = <<>>
    /\ (retry /\ pc = "done" /\ responses # <<>> /\ AllRateLimited(responses))
        => Len(sent) = Max(1, max_retries)

C28_Witness ==
    /\ exhausted /\ retry /\ pc = "done" /\ max_retries >= 2
    /\ AllRateLimited(responses)
    /\ Len(sent) = max_retries

C28_WitnessFirstAttempt ==
    /\ exhausted /\ retry /\ max_retries >= 2
    /\ pc = "sleep" /\ Len(sent) = 1 /\ waits = <<>>

(* C30: a list of rows parses as a whole or not at all: when one row has  *)
(* a required field missing or a value that cannot be coerced the          *)
(* operation raises a validation error and returns no list, else it       *)
(* returns one object per row, in order; a per-instrument record with bad *)
(* rows fails the envelope, while its error text alone does not            *)
C30_ListAllOrNothing ==
    /\ (fn = "ParseList")
        => IF \E i \in 1..Len(input.elems) : input.elems[i] # "100.0"
           THEN /\ output.kind = "raise"
                /\ output.cls = "ValidationError"
                /\ output.items = <<>>
           ELSE LET rows == IF input.op = "get_stock_prices" THEN output.items
                            ELSE output.items[1].stockPricesList
                IN  /\ output.kind = "return"
                    /\ Len(rows) = Len(input.elems)
                    /\ \A i \in 1..Len(rows) : rows[i].ok /\ rows[i].c = Some("100.0")
    /\ (fn \in PerInstrumentOps)
        => /\ (\E i \in 1..Len(input) : input[i].values = "badrows")
                  => (output.kind = "raise" /\ output.records = <<>>)
           /\ (\A i \in 1..Len(input) :
                   /\ input[i].values \in {"null", "rows"}
                   /\ input[i].error \notin {"absent", "null"})
                  => /\ output.kind = "return"
                     /\ \A i \in 1..Len(input) :
                            output.records[i].error = Some(input[i].error)

C30_Witness ==
    /\ fn = "ParseList"
    /\ input.op = "get_stock_prices"
    /\ input.elems = <<"100.0", "absent", "100.0">>
    /\ output.kind = "raise"

C30_WitnessNested ==
    /\ fn = "ParseList"
    /\ input.op = "get_stock_prices_batch"
    /\ input.elems = <<"100.0", "abc">>
    /\ output.kind = "raise"

C30_WitnessWhole ==
    /\ fn = "ParseList"
    /\ input.op = "get_stock_prices_batch"
    /\ input.elems = <<"100.0", "100.0">>
    /\ output.kind = "return"
    /\ Len(output.items[1].stockPricesList) = 2

====
